---- MODULE Spec2Model ----
(***************************************************************************)
(* FileCopyManager (src/src/src/helper/FileCopyManager.cpp): the           *)
(* coordinator that runs copy, delete, image validation, image info        *)
(* extraction and extract-and-validate on one QThread + FileCopyWorker per *)
(* request, and takes their progress and terminal signals back on the      *)
(* control context (the thread the manager lives in) as queued slot calls. *)
(*                                                                         *)
(* One action per public method and per slot.  A slot call is one step of  *)
(* the control context; what it emits, calls and returns is recorded, in   *)
(* order, in trace/ret/op.                                                 *)
(*                                                                         *)
(* Sizes (qint64 byte counts) are counted in units of 2^40 bytes, so that  *)
(* 64-bit two's-complement arithmetic on them is arithmetic modulo 2^24 on *)
(* the unit counts (see Wrap64).                                           *)
(***************************************************************************)
EXTENDS Integers, Sequences, FiniteSets, TLC

VARIABLES
    m_isCopying,         \* bool  m_isCopying
    m_status,            \* QString m_status
    m_copiedSize,        \* qint64 m_copiedSize
    m_totalSize,         \* qint64 m_totalSize
    m_tempDirToCleanup,  \* QString m_tempDirToCleanup
    m_deletingFilePath,  \* QString m_deletingFilePath
    units,               \* live QThread+FileCopyWorker pairs, by id
    nextId,              \* id the next `new QThread` gets
    dirs,                \* destination directories that exist
    fs,                  \* the temp directories on disk
    op,                  \* the method or slot the last step ran
    ret,                 \* what it returned: "true", "false", or "void"
    sender,              \* the unit whose signal the last step took (0: none)
    trace,               \* the call, and what it emitted / called, in program order
    percent              \* what the last progressPercent() call returned

vars == <<m_isCopying, m_status, m_copiedSize, m_totalSize, m_tempDirToCleanup,
          m_deletingFilePath, units, nextId, dirs, fs, op, ret, sender, trace, percent>>

mgr == <<m_isCopying, m_status, m_copiedSize, m_totalSize, m_tempDirToCleanup,
         m_deletingFilePath>>

----------------------------------------------------------------------------
(* Bounds of the model *)

\* background units created in one behaviour
MaxUnits == 2
\* progress events one worker emits before its terminal result
MaxProgress == 1
\* progress events one worker emits in SpecOrder
MaxBurst == 2

(* Inputs *)

Sources == {"/src/a.img"}
Destinations == {"/dst/new/b.img", "/dst/old/b.img"}
TempDirs == {"/tmp/stage1", "/tmp/stage2"}
DeletePaths == {"/tmp/stale.img", "/tmp/other.img"}
ImagePaths == {"/img/rom.zip"}

\* byte counts a worker reports, in units of 2^40 bytes; 131072 units = 2^57 bytes
SizeVals == {0, 1, 2, 131072}
\* the sizes of a small copy
SmallSizes == {1, 2}
SmallTotal == {2}

Files == {"f1"}
Subs == {"s1"}
\* what the temp directory may hold in SpecCleanup
ManyFiles == {"f1", "f2"}
ManySubs == {"s1", "s2"}

\* QFileInfo(destination).dir()
DirOf(destination) ==
    CASE destination = "/dst/new/b.img" -> "/dst/new"
      [] destination = "/dst/old/b.img" -> "/dst/old"

BoolStr(b) == IF b THEN "true" ELSE "false"

----------------------------------------------------------------------------
(* qint64 arithmetic *)

\* 2^64 bytes, in units of 2^40 bytes
Mod64 == 16777216

\* the two's-complement value of x in 64 bits
Wrap64(x) == ((x + Mod64 \div 2) % Mod64) - Mod64 \div 2

\* the range of qint64
InInt64(x) == x >= -(Mod64 \div 2) /\ x < Mod64 \div 2

\* C++ integer division truncates toward zero
TruncDiv(a, b) ==
    IF (a >= 0) = (b > 0) THEN (IF a >= 0 THEN a \div b ELSE (-a) \div (-b))
    ELSE -((IF a >= 0 THEN a ELSE -a) \div (IF b >= 0 THEN b ELSE -b))

----------------------------------------------------------------------------
(* What a control-context step does, in program order.  The first entry   *)
(* is the call itself with its arguments; the others are the signals it   *)
(* emits, the unit it dispatches and the filesystem calls it makes.  Each *)
(* entry holds the busy flag and the temp-directory handle as they are at *)
(* that point of the call.                                                *)

Entry(sig, args, busy, handle) ==
    [sig |-> sig, args |-> args, busy |-> busy, handle |-> handle]

\* the entries of tr whose signal is in sigs
Only(tr, sigs) == SelectSeq(tr, LAMBDA e : e.sig \in sigs)

Raised(tr, sig) == Len(Only(tr, {sig}))

\* position of the first entry of tr with signal sig, 0 if none
RECURSIVE IndexOf(_, _, _)
IndexOf(tr, sig, i) ==
    IF i > Len(tr) THEN 0
    ELSE IF tr[i].sig = sig THEN i
    ELSE IndexOf(tr, sig, i + 1)

----------------------------------------------------------------------------
(* The temp directory on disk and cleanupTempDirectory *)

\* QDir::entryList: the names of a set, in a fixed order
RECURSIVE entryList(_)
entryList(S) ==
    IF S = {} THEN <<>>
    ELSE LET x == CHOOSE y \in S : TRUE IN <<x>> \o entryList(S \ {x})

\* one log entry per removal attempted on the entries of names
RemovalLog(call, tempDir, names, failing, busy, handle) ==
    [i \in 1..Len(names) |->
        Entry(call, <<tempDir, names[i], BoolStr(names[i] \notin failing)>>, busy, handle)]

\* fault: the fallback rmdir is attempted whether or not removeRecursively failed
cleanupTempDirectory_AlwaysFallback(tempDir, disk, failFiles, failSubs, recStuck, failRmdir, busy, handle) ==
    LET d == disk[tempDir] IN
    IF ~d.exists THEN [fs |-> disk, log |-> <<>>]
    ELSE
        LET files == entryList(d.files)
            files1 == d.files \cap failFiles
            dirsIn == entryList(d.subs)
            subs1 == d.subs \cap failSubs
            files2 == files1 \cap recStuck
            subs2 == subs1 \cap recStuck
            recOk == files2 = {} /\ subs2 = {} /\ "." \notin recStuck
            rmdirOk == files2 = {} /\ subs2 = {} /\ ~failRmdir /\ ~recOk
            gone == recOk \/ rmdirOk
            after == IF gone THEN [exists |-> FALSE, files |-> {}, subs |-> {}]
                     ELSE [exists |-> TRUE, files |-> files2, subs |-> subs2]
        IN [fs |-> [disk EXCEPT ![tempDir] = after],
            log |-> RemovalLog("QFile::remove", tempDir, files, failFiles, busy, handle)
                    \o RemovalLog("subDir.removeRecursively", tempDir, dirsIn, failSubs, busy, handle)
                    \o <<Entry("dir.removeRecursively", <<tempDir, ".", BoolStr(recOk)>>, busy, handle),
                         Entry("parentDir.rmdir", <<tempDir, ".", BoolStr(rmdirOk)>>, busy, handle)>>]

\* cleanupTempDirectory(tempDir) on disk `disk`.  The environment decides
\* which removals fail: failFiles (QFile::remove), failSubs (removeRecursively
\* of a subdirectory), recStuck (what dir.removeRecursively cannot remove,
\* "." being the directory itself), failRmdir (the fallback rmdir).
\* Returns the disk afterwards and the removals attempted, in order.
cleanupTempDirectory(tempDir, disk, failFiles, failSubs, recStuck, failRmdir, busy, handle) ==
    LET d == disk[tempDir] IN
    IF ~d.exists THEN [fs |-> disk, log |-> <<>>]
    ELSE
        LET files == entryList(d.files)
            files1 == d.files \cap failFiles
            dirsIn == entryList(d.subs)
            subs1 == d.subs \cap failSubs
            files2 == files1 \cap recStuck
            subs2 == subs1 \cap recStuck
            recOk == files2 = {} /\ subs2 = {} /\ "." \notin recStuck
            rmdirOk == files2 = {} /\ subs2 = {} /\ ~failRmdir
            gone == recOk \/ rmdirOk
            after == IF gone THEN [exists |-> FALSE, files |-> {}, subs |-> {}]
                     ELSE [exists |-> TRUE, files |-> files2, subs |-> subs2]
        IN [fs |-> [disk EXCEPT ![tempDir] = after],
            log |-> RemovalLog("QFile::remove", tempDir, files, failFiles, busy, handle)
                    \o RemovalLog("subDir.removeRecursively", tempDir, dirsIn, failSubs, busy, handle)
                    \o <<Entry("dir.removeRecursively", <<tempDir, ".", BoolStr(recOk)>>, busy, handle)>>
                    \o (IF recOk THEN <<>>
                        ELSE <<Entry("parentDir.rmdir", <<tempDir, ".", BoolStr(rmdirOk)>>, busy, handle)>>)]

----------------------------------------------------------------------------
(* Background units: one QThread and one FileCopyWorker per request *)

\* the unit created by `new QThread(this)` + `new FileCopyWorker()` +
\* thread->start(): the worker method runs with the captured arguments
NewUnit(kind, a1, a2, tempDir) ==
    [kind |-> kind, a1 |-> a1, a2 |-> a2, temp |-> tempDir,
     stage |-> "running", queue |-> <<>>, nprog |-> 0, last |-> 0]

Live == DOMAIN units

\* units whose terminal result the manager has not consumed yet
InFlight(kind) ==
    {u \in Live : units[u].kind = kind /\ units[u].stage \in {"running", "returned"}}

\* an event a worker signal posts to the control context
Event(type, success, payload, copied, total) ==
    [type |-> type, success |-> success, payload |-> payload,
     copied |-> copied, total |-> total]

Dispatch(kind, a1, a2, tempDir) ==
    /\ nextId <= MaxUnits
    /\ units' = [u \in Live \cup {nextId} |->
                    IF u = nextId THEN NewUnit(kind, a1, a2, tempDir) ELSE units[u]]
    /\ nextId' = nextId + 1

\* fault: the newest queued call of the unit is run first
Front_Newest(u) == units[u].queue[Len(units[u].queue)]
\* the slot call at the head of unit u's queue is the next one taken off it:
\* queued calls from one thread to one receiver are run in the order posted
Front(u) == units[u].queue[1]

Taken(u, terminal) ==
    units' = [units EXCEPT ![u].queue = Tail(@),
                           ![u].stage = IF terminal THEN "consumed" ELSE @]

----------------------------------------------------------------------------
(* progressPercent *)

\* static_cast<int>((m_copiedSize * 100) / m_totalSize); on signed overflow
\* of the product the behaviour is undefined: the two's-complement result,
\* or any other int
progressPercentOutcomes(copied, total) ==
    IF total <= 0 THEN {0}
    ELSE IF InInt64(copied * 100) THEN {TruncDiv(copied * 100, total)}
    ELSE {TruncDiv(Wrap64(copied * 100), total)} \cup {-1, 0, 100, 101}

progressPercent ==
    /\ op' = "progressPercent"
    /\ percent' \in progressPercentOutcomes(m_copiedSize, m_totalSize)
    /\ ret' = "void"
    /\ sender' = 0
    /\ trace' = <<Entry("progressPercent", <<>>, m_isCopying, m_tempDirToCleanup)>>
    /\ UNCHANGED <<mgr, units, nextId, dirs, fs>>

----------------------------------------------------------------------------
(* FileCopyManager: public methods *)

\* fault: the busy check is missing
startCopyRejects_Never == FALSE
\* if (m_isCopying)
startCopyRejects == m_isCopying

\* fault: the temp directory of the request is not recorded
RecordedTempDir_Stale(tempDirToCleanup) == m_tempDirToCleanup
\* m_tempDirToCleanup = tempDirToCleanup
RecordedTempDir(tempDirToCleanup) == tempDirToCleanup

\* fault: the sizes are reset before the busy check
startCopyBusy_ResetsProgress(call) ==
    /\ m_status' = "Already copying..."
    /\ m_copiedSize' = 0
    /\ m_totalSize' = 0
    /\ trace' = call \o <<Entry("statusChanged", <<>>, m_isCopying, m_tempDirToCleanup)>>
    /\ ret' = "false"
    /\ UNCHANGED <<m_isCopying, m_tempDirToCleanup,
                   m_deletingFilePath, units, nextId, dirs, fs, percent>>
\* fault: the temp directory is recorded before the busy check
startCopyBusy_RecordsTemp(call) ==
    /\ m_status' = "Already copying..."
    /\ m_tempDirToCleanup' = call[1].args[3]
    /\ trace' = call \o <<Entry("statusChanged", <<>>, m_isCopying, call[1].args[3])>>
    /\ ret' = "false"
    /\ UNCHANGED <<m_isCopying, m_copiedSize, m_totalSize,
                   m_deletingFilePath, units, nextId, dirs, fs, percent>>
\* the busy branch of startCopy, after the call entry
startCopyBusy(call) ==
    /\ m_status' = "Already copying..."
    /\ trace' = call \o <<Entry("statusChanged", <<>>, m_isCopying, m_tempDirToCleanup)>>
    /\ ret' = "false"
    /\ UNCHANGED <<m_isCopying, m_copiedSize, m_totalSize, m_tempDirToCleanup,
                   m_deletingFilePath, units, nextId, dirs, fs, percent>>

\* fault: the temp directory is recorded before the destination directory is checked
startCopyMkpathFailed_RecordsTemp(call) ==
    /\ m_status' = "Failed to create destination directory."
    /\ m_tempDirToCleanup' = call[1].args[3]
    /\ trace' = call
                \o <<Entry("destDir.mkpath", <<"false">>, m_isCopying, call[1].args[3]),
                     Entry("statusChanged", <<>>, m_isCopying, call[1].args[3]),
                     Entry("copyFailed", <<"Failed to create destination directory.">>,
                           m_isCopying, call[1].args[3])>>
    /\ ret' = "false"
    /\ UNCHANGED <<m_isCopying, m_copiedSize, m_totalSize,
                   m_deletingFilePath, units, nextId, dirs, fs, percent>>
\* fault: m_isCopying is set before the destination directory is checked
startCopyMkpathFailed_BusyFirst(call) ==
    /\ m_status' = "Failed to create destination directory."
    /\ m_isCopying' = TRUE
    /\ trace' = call
                \o <<Entry("destDir.mkpath", <<"false">>, TRUE, m_tempDirToCleanup),
                     Entry("statusChanged", <<>>, TRUE, m_tempDirToCleanup),
                     Entry("copyFailed", <<"Failed to create destination directory.">>,
                           TRUE, m_tempDirToCleanup)>>
    /\ ret' = "false"
    /\ UNCHANGED <<m_copiedSize, m_totalSize, m_tempDirToCleanup,
                   m_deletingFilePath, units, nextId, dirs, fs, percent>>
\* the branch of startCopy taken when destDir.mkpath(".") fails
startCopyMkpathFailed(call) ==
    /\ m_status' = "Failed to create destination directory."
    /\ trace' = call
                \o <<Entry("destDir.mkpath", <<"false">>, m_isCopying, m_tempDirToCleanup),
                     Entry("statusChanged", <<>>, m_isCopying, m_tempDirToCleanup),
                     Entry("copyFailed", <<"Failed to create destination directory.">>,
                           m_isCopying, m_tempDirToCleanup)>>
    /\ ret' = "false"
    /\ UNCHANGED <<m_isCopying, m_copiedSize, m_totalSize, m_tempDirToCleanup,
                   m_deletingFilePath, units, nextId, dirs, fs, percent>>

\* the rest of startCopy, once the destination directory exists
startCopyAccepted(call, source, destination, tempDirToCleanup) ==
    LET handle == RecordedTempDir(tempDirToCleanup) IN
    /\ dirs' = dirs \cup {DirOf(destination)}
    /\ m_tempDirToCleanup' = handle
    /\ m_isCopying' = TRUE
    /\ m_status' = "Starting copy..."
    /\ m_copiedSize' = 0
    /\ m_totalSize' = 0
    /\ Dispatch("copy", source, destination, tempDirToCleanup)
    /\ trace' = call
                \o (IF DirOf(destination) \in dirs THEN <<>>
                    ELSE <<Entry("destDir.mkpath", <<"true">>, m_isCopying, m_tempDirToCleanup)>>)
                \o <<Entry("isCopyingChanged", <<>>, TRUE, handle),
                     Entry("statusChanged", <<>>, TRUE, handle),
                     Entry("progressChanged", <<>>, TRUE, handle),
                     Entry("totalSizeChanged", <<>>, TRUE, handle),
                     Entry("dispatch", <<"copy", source, destination>>, TRUE, handle)>>
    /\ ret' = "true"
    /\ UNCHANGED <<m_deletingFilePath, fs, percent>>

startCopy(source, destination, tempDirToCleanup) ==
    LET call == <<Entry("startCopy", <<source, destination, tempDirToCleanup>>,
                        m_isCopying, m_tempDirToCleanup)>>
    IN
    /\ op' = "startCopy"
    /\ sender' = 0
    /\ IF startCopyRejects THEN startCopyBusy(call)
       ELSE IF DirOf(destination) \in dirs
            THEN startCopyAccepted(call, source, destination, tempDirToCleanup)
            ELSE \E mkpathOk \in BOOLEAN :
                    IF ~mkpathOk THEN startCopyMkpathFailed(call)
                    ELSE startCopyAccepted(call, source, destination, tempDirToCleanup)

startDelete(filePath) ==
    /\ op' = "startDelete"
    /\ sender' = 0
    /\ m_deletingFilePath' = filePath
    /\ m_status' = "Starting delete..."
    /\ Dispatch("delete", filePath, "", "")
    /\ trace' = <<Entry("startDelete", <<filePath>>, m_isCopying, m_tempDirToCleanup),
                  Entry("statusChanged", <<>>, m_isCopying, m_tempDirToCleanup),
                  Entry("dispatch", <<"delete", filePath, "">>, m_isCopying, m_tempDirToCleanup)>>
    /\ ret' = "true"
    /\ UNCHANGED <<m_isCopying, m_copiedSize, m_totalSize, m_tempDirToCleanup,
                   dirs, fs, percent>>

startImageValidation(imagePath) ==
    /\ op' = "startImageValidation"
    /\ sender' = 0
    /\ m_status' = "Starting image validation..."
    /\ Dispatch("validate", imagePath, "", "")
    /\ trace' = <<Entry("startImageValidation", <<imagePath>>, m_isCopying, m_tempDirToCleanup),
                  Entry("statusChanged", <<>>, m_isCopying, m_tempDirToCleanup),
                  Entry("validationProgress", <<"start", "0">>, m_isCopying, m_tempDirToCleanup),
                  Entry("dispatch", <<"validate", imagePath, "">>, m_isCopying, m_tempDirToCleanup)>>
    /\ ret' = "true"
    /\ UNCHANGED <<m_isCopying, m_copiedSize, m_totalSize, m_tempDirToCleanup,
                   m_deletingFilePath, dirs, fs, percent>>

\* fault: the busy check is missing
ProcessingRejects_Never == FALSE
\* if (m_isCopying), in startImageInfoExtraction and startImageInfoAndValidation
ProcessingRejects == m_isCopying

startImageInfoExtraction(imagePath) ==
    /\ op' = "startImageInfoExtraction"
    /\ sender' = 0
    /\ IF ProcessingRejects THEN
          /\ m_status' = "Already processing..."
          /\ trace' = <<Entry("startImageInfoExtraction", <<imagePath>>,
                              m_isCopying, m_tempDirToCleanup),
                        Entry("statusChanged", <<>>, m_isCopying, m_tempDirToCleanup)>>
          /\ ret' = "false"
          /\ UNCHANGED <<units, nextId>>
       ELSE
          /\ m_status' = "Extracting image info..."
          /\ Dispatch("extract", imagePath, "", "")
          /\ trace' = <<Entry("startImageInfoExtraction", <<imagePath>>,
                              m_isCopying, m_tempDirToCleanup),
                        Entry("statusChanged", <<>>, m_isCopying, m_tempDirToCleanup),
                        Entry("dispatch", <<"extract", imagePath, "">>, m_isCopying, m_tempDirToCleanup)>>
          /\ ret' = "true"
    /\ UNCHANGED <<m_isCopying, m_copiedSize, m_totalSize, m_tempDirToCleanup,
                   m_deletingFilePath, dirs, fs, percent>>

startImageInfoAndValidation(imagePath) ==
    /\ op' = "startImageInfoAndValidation"
    /\ sender' = 0
    /\ IF ProcessingRejects THEN
          /\ m_status' = "Already processing..."
          /\ trace' = <<Entry("startImageInfoAndValidation", <<imagePath>>,
                              m_isCopying, m_tempDirToCleanup),
                        Entry("statusChanged", <<>>, m_isCopying, m_tempDirToCleanup)>>
          /\ ret' = "false"
          /\ UNCHANGED <<units, nextId>>
       ELSE
          /\ m_status' = "Processing image info and validation..."
          /\ Dispatch("extractAndValidate", imagePath, "", "")
          /\ trace' = <<Entry("startImageInfoAndValidation", <<imagePath>>,
                              m_isCopying, m_tempDirToCleanup),
                        Entry("statusChanged", <<>>, m_isCopying, m_tempDirToCleanup),
                        Entry("validationProgress", <<"start", "0">>, m_isCopying, m_tempDirToCleanup),
                        Entry("dispatch", <<"extractAndValidate", imagePath, "">>,
                              m_isCopying, m_tempDirToCleanup)>>
          /\ ret' = "true"
    /\ UNCHANGED <<m_isCopying, m_copiedSize, m_totalSize, m_tempDirToCleanup,
                   m_deletingFilePath, dirs, fs, percent>>

----------------------------------------------------------------------------
(* FileCopyManager: slots, run on the control context for the call at the *)
(* head of a unit's queue                                                 *)

Pending(u, type) ==
    /\ u \in Live
    /\ units[u].queue # <<>>
    /\ Front(u).type = type

\* a slot run for the signal of unit u
Slot(name, u, terminal) ==
    /\ op' = name
    /\ sender' = u
    /\ ret' = "void"
    /\ Taken(u, terminal)

\* fault: the branches are swapped
DeleteTerminal_Swapped(success, message, busy, handle) ==
    IF ~success THEN Entry("deleteSucceeded", <<m_deletingFilePath>>, busy, handle)
    ELSE Entry("deleteFailed", <<message>>, busy, handle)
\* if (success) emit deleteSucceeded(m_deletingFilePath); else emit deleteFailed(message);
DeleteTerminal(success, message, busy, handle) ==
    IF success THEN Entry("deleteSucceeded", <<m_deletingFilePath>>, busy, handle)
    ELSE Entry("deleteFailed", <<message>>, busy, handle)

onDeleteFinished(u) ==
    /\ Pending(u, "deleteFinished")
    /\ Slot("onDeleteFinished", u, TRUE)
    /\ LET success == Front(u).success
           message == Front(u).payload[1]
       IN /\ m_status' = message
          /\ trace' = <<Entry("onDeleteFinished", <<BoolStr(success), message>>,
                              m_isCopying, m_tempDirToCleanup),
                        Entry("statusChanged", <<>>, m_isCopying, m_tempDirToCleanup),
                        DeleteTerminal(success, message, m_isCopying, m_tempDirToCleanup)>>
    /\ UNCHANGED <<m_isCopying, m_copiedSize, m_totalSize, m_tempDirToCleanup,
                   m_deletingFilePath, nextId, dirs, fs, percent>>

onCopyProgress(u) ==
    /\ Pending(u, "progress")
    /\ Slot("onCopyProgress", u, FALSE)
    /\ LET copiedSize == Front(u).copied
           totalSize == Front(u).total
       IN /\ m_totalSize' = (IF m_totalSize # totalSize THEN totalSize ELSE m_totalSize)
          /\ m_copiedSize' = copiedSize
          /\ trace' = <<Entry("onCopyProgress", <<>>, m_isCopying, m_tempDirToCleanup)>>
                      \o (IF m_totalSize # totalSize
                          THEN <<Entry("totalSizeChanged", <<>>, m_isCopying, m_tempDirToCleanup)>>
                          ELSE <<>>)
                      \o <<Entry("progressChanged", <<>>, m_isCopying, m_tempDirToCleanup)>>
    /\ UNCHANGED <<m_isCopying, m_status, m_tempDirToCleanup, m_deletingFilePath,
                   nextId, dirs, fs, percent>>

\* fault: the flag is not cleared
FinishedIsCopying_Kept == m_isCopying
\* m_isCopying = false
FinishedIsCopying == FALSE

\* fault: a failed removal turns the copy into a failure
CopyOutcome_NeedsCleanup(success, log) ==
    success /\ \A i \in 1..Len(log) : log[i].args[3] = "true"
\* cleanupTempDirectory returns void: what onCopyFinished reports is the
\* worker's success flag, whatever the removals in `log` did
CopyOutcome(success, log) == success

\* fault: the else branch does not emit copyFailed
CopyTerminal_SilentFailure(success, message, busy, handle) ==
    IF success THEN Entry("copySucceeded", <<>>, busy, handle)
    ELSE Entry("statusChanged", <<>>, busy, handle)
\* if (success) emit copySucceeded(); else emit copyFailed(message);
CopyTerminal(success, message, busy, handle) ==
    IF success THEN Entry("copySucceeded", <<>>, busy, handle)
    ELSE Entry("copyFailed", <<message>>, busy, handle)

onCopyFinished(u) ==
    /\ Pending(u, "finished")
    /\ Slot("onCopyFinished", u, TRUE)
    /\ LET success == Front(u).success
           message == Front(u).payload[1]
           busy == FinishedIsCopying
           head == <<Entry("onCopyFinished", <<BoolStr(success), message>>,
                           m_isCopying, m_tempDirToCleanup),
                     Entry("isCopyingChanged", <<>>, busy, m_tempDirToCleanup),
                     Entry("statusChanged", <<>>, busy, m_tempDirToCleanup)>>
       IN /\ m_isCopying' = busy
          /\ m_status' = message
          /\ IF m_tempDirToCleanup # "" THEN
                \E failFiles \in SUBSET fs[m_tempDirToCleanup].files,
                   failSubs \in SUBSET fs[m_tempDirToCleanup].subs :
                \E recStuck \in SUBSET (failFiles \cup failSubs \cup {"."}),
                   failRmdir \in BOOLEAN :
                   LET c == cleanupTempDirectory(m_tempDirToCleanup, fs, failFiles, failSubs,
                                                 recStuck, failRmdir, busy, m_tempDirToCleanup)
                   IN /\ fs' = c.fs
                      /\ m_tempDirToCleanup' = ""
                      /\ trace' = head
                                  \o <<Entry("cleanupTempDirectory", <<m_tempDirToCleanup>>,
                                             busy, m_tempDirToCleanup)>>
                                  \o c.log
                                  \o <<Entry("cleanupTempDirectory.return", <<m_tempDirToCleanup>>,
                                             busy, m_tempDirToCleanup)>>
                                  \o <<CopyTerminal(CopyOutcome(success, c.log), message, busy, "")>>
             ELSE
                /\ trace' = head \o <<CopyTerminal(CopyOutcome(success, <<>>), message, busy,
                                                   m_tempDirToCleanup)>>
                /\ UNCHANGED <<fs, m_tempDirToCleanup>>
    /\ UNCHANGED <<m_copiedSize, m_totalSize, m_deletingFilePath, nextId, dirs, percent>>

\* the worker's validationProgress signal is connected to the manager's own
\* signal of that name, which re-emits it on the control context
validationProgress(u) ==
    /\ Pending(u, "validationProgress")
    /\ Slot("validationProgress", u, FALSE)
    /\ trace' = <<Entry("validationProgress", Front(u).payload, m_isCopying, m_tempDirToCleanup)>>
    /\ UNCHANGED <<mgr, nextId, dirs, fs, percent>>

\* fault: the failure is reported with the image name instead of the message
ValidationTerminal_WrongPayload(success, message, imageName, tarFilePath, busy, handle) ==
    IF success THEN Entry("validationSucceeded", <<imageName, tarFilePath>>, busy, handle)
    ELSE Entry("validationFailed", <<imageName>>, busy, handle)
\* if (success) emit validationSucceeded(imageName, tarFilePath);
\* else emit validationFailed(message);
ValidationTerminal(success, message, imageName, tarFilePath, busy, handle) ==
    IF success THEN Entry("validationSucceeded", <<imageName, tarFilePath>>, busy, handle)
    ELSE Entry("validationFailed", <<message>>, busy, handle)

onValidationFinished(u) ==
    /\ Pending(u, "validationFinished")
    /\ Slot("onValidationFinished", u, TRUE)
    /\ LET success == Front(u).success
           message == Front(u).payload[1]
           imageName == Front(u).payload[2]
           tarFilePath == Front(u).payload[3]
       IN /\ m_status' = message
          /\ trace' = <<Entry("onValidationFinished", <<BoolStr(success)>> \o Front(u).payload,
                              m_isCopying, m_tempDirToCleanup),
                        Entry("statusChanged", <<>>, m_isCopying, m_tempDirToCleanup),
                        ValidationTerminal(success, message, imageName, tarFilePath,
                                           m_isCopying, m_tempDirToCleanup)>>
    /\ UNCHANGED <<m_isCopying, m_copiedSize, m_totalSize, m_tempDirToCleanup,
                   m_deletingFilePath, nextId, dirs, fs, percent>>

onImageInfoExtracted(u) ==
    /\ Pending(u, "imageInfoExtracted")
    /\ Slot("onImageInfoExtracted", u, TRUE)
    /\ LET success == Front(u).success
       IN /\ m_status' = (IF success THEN "Image info extracted successfully"
                          ELSE "Failed to extract image info")
          /\ trace' = <<Entry("onImageInfoExtracted", <<BoolStr(success)>> \o Front(u).payload,
                              m_isCopying, m_tempDirToCleanup),
                        Entry("statusChanged", <<>>, m_isCopying, m_tempDirToCleanup),
                        Entry("imageInfoExtracted", <<BoolStr(success)>> \o Front(u).payload,
                              m_isCopying, m_tempDirToCleanup)>>
    /\ UNCHANGED <<m_isCopying, m_copiedSize, m_totalSize, m_tempDirToCleanup,
                   m_deletingFilePath, nextId, dirs, fs, percent>>

onImageInfoAndValidationCompleted(u) ==
    /\ Pending(u, "imageInfoAndValidationCompleted")
    /\ Slot("onImageInfoAndValidationCompleted", u, TRUE)
    /\ LET success == Front(u).success
       IN /\ m_status' = (IF success THEN "Image processing completed successfully"
                          ELSE "Failed to process image")
          /\ trace' = <<Entry("onImageInfoAndValidationCompleted",
                              <<BoolStr(success)>> \o Front(u).payload,
                              m_isCopying, m_tempDirToCleanup),
                        Entry("statusChanged", <<>>, m_isCopying, m_tempDirToCleanup),
                        Entry("imageInfoAndValidationCompleted",
                              <<BoolStr(success)>> \o Front(u).payload,
                              m_isCopying, m_tempDirToCleanup)>>
    /\ UNCHANGED <<m_isCopying, m_copiedSize, m_totalSize, m_tempDirToCleanup,
                   m_deletingFilePath, nextId, dirs, fs, percent>>

----------------------------------------------------------------------------
(* FileCopyWorker, running on the unit's own thread.  Its signals reach   *)
(* the manager as queued calls, in the order they were emitted.           *)

\* nprog and last are locals of the worker method: they are gone when it returns
Post(u, ev, stage) ==
    units' = [units EXCEPT ![u].queue = Append(@, ev),
                           ![u].stage = stage,
                           ![u].nprog = IF stage = "running" THEN @ + 1 ELSE 0,
                           ![u].last = IF ev.type = "progress" THEN ev.copied ELSE 0]

Running(u, kind) ==
    /\ u \in Live
    /\ units[u].kind = kind
    /\ units[u].stage = "running"

\* the message of a terminal result
Message(success) == IF success THEN "done" ELSE "permission denied"

\* a step off the control context
Background(name) ==
    /\ op' = name
    /\ ret' = "void"
    /\ sender' = 0
    /\ trace' = <<>>
    /\ UNCHANGED <<mgr, nextId, dirs, fs, percent>>

\* doCopy: emit progress(copiedSize, totalSize), at most `most` times
doCopyBurst(u, sizes, totals, most) ==
    /\ Running(u, "copy")
    /\ units[u].nprog < most
    /\ \E copied \in sizes, total \in totals :
          /\ copied >= units[u].last
          /\ Post(u, Event("progress", TRUE, <<>>, copied, total), "running")
    /\ Background("doCopy")

doCopyProgress(u, sizes, totals) == doCopyBurst(u, sizes, totals, MaxProgress)

\* doCopy: emit finished(success, message)
doCopyFinished(u) ==
    /\ Running(u, "copy")
    /\ \E success \in BOOLEAN :
          Post(u, Event("finished", success, <<Message(success)>>, 0, 0), "returned")
    /\ Background("doCopy")

\* doDelete: emit deleteFinished(success, message)
doDelete(u) ==
    /\ Running(u, "delete")
    /\ \E success \in BOOLEAN :
          Post(u, Event("deleteFinished", success, <<Message(success)>>, 0, 0), "returned")
    /\ Background("doDelete")

\* doValidateImage / doExtractAndValidateImage: emit validationProgress(label, value),
\* at most `most` times, with a value that grows
doValidationBurst(u, most) ==
    /\ Running(u, "validate") \/ Running(u, "extractAndValidate")
    /\ units[u].nprog < most
    /\ Post(u, Event("validationProgress", TRUE,
                     <<"checking", IF units[u].nprog = 0 THEN "50" ELSE "75">>, 0, 0),
            "running")
    /\ Background("doValidateImage")

doValidationProgress(u) == doValidationBurst(u, MaxProgress)

\* doValidateImage: emit validationFinished(success, message, imageName, tarFilePath)
doValidateImage(u) ==
    /\ Running(u, "validate")
    /\ \E success \in BOOLEAN :
          Post(u, Event("validationFinished", success,
                        <<Message(success), "rom", "/tmp/rom.tar">>, 0, 0), "returned")
    /\ Background("doValidateImage")

\* doExtractImageInfo: emit imageInfoExtracted(success, imageName, androidVersion, errorMessage)
doExtractImageInfo(u) ==
    /\ Running(u, "extract")
    /\ \E success \in BOOLEAN :
          Post(u, Event("imageInfoExtracted", success,
                        <<"rom", "14", IF success THEN "" ELSE "permission denied">>,
                        0, 0), "returned")
    /\ Background("doExtractImageInfo")

\* doExtractAndValidateImage: emit imageInfoAndValidationCompleted(success, message,
\* imageName, androidVersion, tarFilePath)
doExtractAndValidateImage(u) ==
    /\ Running(u, "extractAndValidate")
    /\ \E success \in BOOLEAN :
          Post(u, Event("imageInfoAndValidationCompleted", success,
                        <<Message(success), "rom", "14", "/tmp/rom.tar">>, 0, 0), "returned")
    /\ Background("doExtractAndValidateImage")

----------------------------------------------------------------------------
(* QThread lifetime *)

\* fault: quit is connected before the manager's slot, so the thread is
\* asked to quit while the terminal result still waits in the queue
threadQuit_BeforeSlot(u) ==
    /\ u \in Live
    /\ units[u].stage = "returned"
    /\ units' = [units EXCEPT ![u].stage = "quit"]
    /\ Background("QThread::quit")

\* the worker's terminal signal is also connected to QThread::quit, after
\* the manager's slot: the quit call is taken once that slot has run
threadQuit(u) ==
    /\ u \in Live
    /\ units[u].stage = "consumed"
    /\ units' = [units EXCEPT ![u].stage = "quit"]
    /\ Background("QThread::quit")

\* QThread::finished: deleteLater of the worker and of the thread
threadFinished(u) ==
    /\ u \in Live
    /\ units[u].stage = "quit"
    /\ units' = [v \in Live \ {u} |-> units[v]]
    /\ Background("QThread::finished")

----------------------------------------------------------------------------
(* The system *)

Ids == 1..MaxUnits

Init ==
    /\ m_isCopying = FALSE
    /\ m_status = ""
    /\ m_copiedSize = 0
    /\ m_totalSize = 0
    /\ m_tempDirToCleanup = ""
    /\ m_deletingFilePath = ""
    /\ units = <<>>
    /\ nextId = 1
    /\ dirs = {"/dst/old"}
    /\ fs = [d \in TempDirs |->
                IF d = "/tmp/stage1" THEN [exists |-> TRUE, files |-> Files, subs |-> Subs]
                ELSE [exists |-> TRUE, files |-> {}, subs |-> {}]]
    /\ op = "init"
    /\ ret = "void"
    /\ sender = 0
    /\ trace = <<>>
    /\ percent = 0

Next ==
    \/ \E s \in Sources, d \in {"/dst/new/b.img"}, t \in TempDirs \cup {""} : startCopy(s, d, t)
    \/ \E p \in DeletePaths : startDelete(p)
    \/ \E p \in ImagePaths : startImageValidation(p)
    \/ \E p \in ImagePaths : startImageInfoExtraction(p)
    \/ \E p \in ImagePaths : startImageInfoAndValidation(p)
    \/ \E u \in Ids : onCopyProgress(u)
    \/ \E u \in Ids : onCopyFinished(u)
    \/ \E u \in Ids : onDeleteFinished(u)
    \/ \E u \in Ids : validationProgress(u)
    \/ \E u \in Ids : onValidationFinished(u)
    \/ \E u \in Ids : onImageInfoExtracted(u)
    \/ \E u \in Ids : onImageInfoAndValidationCompleted(u)
    \/ \E u \in Ids : doCopyProgress(u, SmallSizes, SmallTotal)
    \/ \E u \in Ids : doCopyFinished(u)
    \/ \E u \in Ids : doDelete(u)
    \/ \E u \in Ids : doValidationProgress(u)
    \/ \E u \in Ids : doValidateImage(u)
    \/ \E u \in Ids : doExtractImageInfo(u)
    \/ \E u \in Ids : doExtractAndValidateImage(u)
    \/ \E u \in Ids : threadQuit(u)
    \/ \E u \in Ids : threadFinished(u)

Spec == Init /\ [][Next]_vars

\* copies alone, to a destination whose directory exists and to one whose
\* directory does not
NextCopy ==
    \/ \E s \in Sources, d \in Destinations, t \in TempDirs \cup {""} : startCopy(s, d, t)
    \/ \E u \in Ids : onCopyProgress(u)
    \/ \E u \in Ids : onCopyFinished(u)
    \/ \E u \in Ids : doCopyProgress(u, SmallSizes, SmallTotal)
    \/ \E u \in Ids : doCopyFinished(u)
    \/ \E u \in Ids : threadQuit(u)
    \/ \E u \in Ids : threadFinished(u)

SpecCopy == Init /\ [][NextCopy]_vars

\* copies with a temp directory that is absent, empty, or holds up to two
\* files and two subdirectories
InitCleanup ==
    /\ m_isCopying = FALSE
    /\ m_status = ""
    /\ m_copiedSize = 0
    /\ m_totalSize = 0
    /\ m_tempDirToCleanup = ""
    /\ m_deletingFilePath = ""
    /\ units = <<>>
    /\ nextId = 1
    /\ dirs = {"/dst/old"}
    /\ \E x \in BOOLEAN, files \in SUBSET ManyFiles, subs \in SUBSET ManySubs :
          /\ ~x => files = {} /\ subs = {}
          /\ fs = [d \in TempDirs |->
                      IF d = "/tmp/stage1" THEN [exists |-> x, files |-> files, subs |-> subs]
                      ELSE [exists |-> TRUE, files |-> Files, subs |-> {}]]
    /\ op = "init"
    /\ ret = "void"
    /\ sender = 0
    /\ trace = <<>>
    /\ percent = 0

NextCleanup ==
    \/ \E s \in Sources, d \in {"/dst/old/b.img"}, t \in {"/tmp/stage1"} : startCopy(s, d, t)
    \/ \E u \in Ids : onCopyFinished(u)
    \/ \E u \in Ids : doCopyFinished(u)
    \/ \E u \in Ids : threadQuit(u)
    \/ \E u \in Ids : threadFinished(u)

SpecCleanup == InitCleanup /\ [][NextCleanup]_vars

\* copy, validation and extract-and-validate with workers that report
\* progress more than once
NextOrder ==
    \/ \E s \in Sources, d \in {"/dst/old/b.img"}, t \in {""} : startCopy(s, d, t)
    \/ \E p \in ImagePaths : startImageValidation(p)
    \/ \E p \in ImagePaths : startImageInfoAndValidation(p)
    \/ \E u \in Ids : onCopyProgress(u)
    \/ \E u \in Ids : onCopyFinished(u)
    \/ \E u \in Ids : validationProgress(u)
    \/ \E u \in Ids : onValidationFinished(u)
    \/ \E u \in Ids : onImageInfoAndValidationCompleted(u)
    \/ \E u \in Ids : doCopyBurst(u, SmallSizes, SmallTotal, MaxBurst)
    \/ \E u \in Ids : doCopyFinished(u)
    \/ \E u \in Ids : doValidationBurst(u, MaxBurst)
    \/ \E u \in Ids : doValidateImage(u)
    \/ \E u \in Ids : doExtractAndValidateImage(u)
    \/ \E u \in Ids : threadQuit(u)
    \/ \E u \in Ids : threadFinished(u)

SpecOrder == Init /\ [][NextOrder]_vars

\* the control context's event loop runs every queued slot call, a worker
\* method started on its thread runs to its terminal signal, and a thread
\* asked to quit leaves its event loop
Fairness ==
    \A u \in Ids :
        /\ WF_vars(onCopyProgress(u))
        /\ WF_vars(onCopyFinished(u))
        /\ WF_vars(onDeleteFinished(u))
        /\ WF_vars(validationProgress(u))
        /\ WF_vars(onValidationFinished(u))
        /\ WF_vars(onImageInfoExtracted(u))
        /\ WF_vars(onImageInfoAndValidationCompleted(u))
        /\ WF_vars(doCopyFinished(u))
        /\ WF_vars(doDelete(u))
        /\ WF_vars(doValidateImage(u))
        /\ WF_vars(doExtractImageInfo(u))
        /\ WF_vars(doExtractAndValidateImage(u))
        /\ WF_vars(threadQuit(u))
        /\ WF_vars(threadFinished(u))

\* every operation, with one path per argument and the temp directory
\* that starts empty
NextLive ==
    \/ \E s \in Sources, d \in {"/dst/new/b.img"}, t \in {"", "/tmp/stage2"} : startCopy(s, d, t)
    \/ \E p \in {"/tmp/stale.img"} : startDelete(p)
    \/ \E p \in ImagePaths : startImageValidation(p)
    \/ \E p \in ImagePaths : startImageInfoExtraction(p)
    \/ \E p \in ImagePaths : startImageInfoAndValidation(p)
    \/ \E u \in Ids : onCopyProgress(u)
    \/ \E u \in Ids : onCopyFinished(u)
    \/ \E u \in Ids : onDeleteFinished(u)
    \/ \E u \in Ids : validationProgress(u)
    \/ \E u \in Ids : onValidationFinished(u)
    \/ \E u \in Ids : onImageInfoExtracted(u)
    \/ \E u \in Ids : onImageInfoAndValidationCompleted(u)
    \/ \E u \in Ids : doCopyProgress(u, SmallSizes, SmallTotal)
    \/ \E u \in Ids : doCopyFinished(u)
    \/ \E u \in Ids : doDelete(u)
    \/ \E u \in Ids : doValidationProgress(u)
    \/ \E u \in Ids : doValidateImage(u)
    \/ \E u \in Ids : doExtractImageInfo(u)
    \/ \E u \in Ids : doExtractAndValidateImage(u)
    \/ \E u \in Ids : threadQuit(u)
    \/ \E u \in Ids : threadFinished(u)

SpecLive == Init /\ [][NextLive]_vars /\ Fairness

\* copies alone, with the worker reporting sizes up to 2^57 bytes, and the
\* progressPercent() query
NextPercent ==
    \/ \E s \in Sources, d \in {"/dst/old/b.img"}, t \in {""} : startCopy(s, d, t)
    \/ progressPercent
    \/ \E u \in Ids : onCopyProgress(u)
    \/ \E u \in Ids : onCopyFinished(u)
    \/ \E u \in Ids : doCopyProgress(u, SizeVals, SizeVals)
    \/ \E u \in Ids : doCopyFinished(u)
    \/ \E u \in Ids : threadQuit(u)
    \/ \E u \in Ids : threadFinished(u)

SpecPercent == Init /\ [][NextPercent]_vars

----------------------------------------------------------------------------
(* Properties *)

\* the arguments of the call the last step ran
CallArgs(tr) == tr[1].args

\* whether destDir.mkpath(".") was called and failed in tr
MkpathFailed(tr) ==
    \E i \in 1..Len(tr) : tr[i].sig = "destDir.mkpath" /\ tr[i].args = <<"false">>

\* the unit the last dispatch created
Newest == nextId - 1

\* C1: at most one copy unit is in flight (dispatched by startCopy, its
\* terminal result not yet consumed by onCopyFinished), and m_isCopying is
\* true exactly when one is.
C1_OneCopyInFlight ==
    /\ Cardinality(InFlight("copy")) <= 1
    /\ m_isCopying <=> InFlight("copy") # {}

\* a startCopy request arrives while a copy and a unit of another kind are live
C1_Witness ==
    /\ op = "startCopy"
    /\ ret = "false"
    /\ m_isCopying
    /\ Cardinality(InFlight("copy")) = 1
    /\ Cardinality(Live) = 2

\* C2: startCopy called while busy returns false, dispatches nothing, sets
\* the status to "Already copying..." and leaves m_isCopying, m_copiedSize,
\* m_totalSize and m_tempDirToCleanup as they were.
C2_BusyStartCopyRejected ==
    [][(op' = "startCopy" /\ m_isCopying) =>
          /\ ret' = "false"
          /\ units' = units
          /\ nextId' = nextId
          /\ Raised(trace', "dispatch") = 0
          /\ m_status' = "Already copying..."
          /\ m_isCopying' = m_isCopying
          /\ m_copiedSize' = m_copiedSize
          /\ m_totalSize' = m_totalSize
          /\ m_tempDirToCleanup' = m_tempDirToCleanup]_vars

\* a rejected startCopy that named another temp directory than the one of
\* the copy in flight, whose progress is under way
C2_Witness ==
    /\ op = "startCopy"
    /\ ret = "false"
    /\ m_isCopying
    /\ m_status = "Already copying..."
    /\ m_copiedSize > 0
    /\ m_tempDirToCleanup # ""
    /\ CallArgs(trace)[3] # ""
    /\ CallArgs(trace)[3] # m_tempDirToCleanup

\* C3: startCopy called while not busy, with the destination's directory
\* absent and mkpath failing, returns false, dispatches nothing, leaves
\* m_isCopying false and m_copiedSize, m_totalSize and m_tempDirToCleanup as
\* they were, and emits copyFailed exactly once.
C3_MkpathFailureRejected ==
    [][(op' = "startCopy" /\ ~m_isCopying /\ MkpathFailed(trace')) =>
          /\ DirOf(CallArgs(trace')[2]) \notin dirs
          /\ ret' = "false"
          /\ units' = units
          /\ nextId' = nextId
          /\ Raised(trace', "dispatch") = 0
          /\ m_isCopying' = FALSE
          /\ m_copiedSize' = m_copiedSize
          /\ m_totalSize' = m_totalSize
          /\ m_tempDirToCleanup' = m_tempDirToCleanup
          /\ Raised(trace', "copyFailed") = 1]_vars

\* mkpath fails for a request that names a temp directory, after an earlier
\* copy has left its progress behind
C3_Witness ==
    /\ op = "startCopy"
    /\ ret = "false"
    /\ ~m_isCopying
    /\ MkpathFailed(trace)
    /\ Raised(trace, "copyFailed") = 1
    /\ CallArgs(trace)[3] # ""
    /\ m_copiedSize > 0
    /\ m_totalSize > 0

\* C4: an accepted startCopy (not busy, destination directory present or
\* created) records the given temp directory, sets m_isCopying, resets
\* m_copiedSize and m_totalSize to 0, dispatches exactly one copy unit for
\* (source, destination) and returns true, all in one step: when it
\* returns, the worker of that unit has emitted nothing and nothing of it
\* has been consumed.
C4_AcceptedStartCopy ==
    [][(op' = "startCopy" /\ ~m_isCopying /\ ~MkpathFailed(trace')) =>
          /\ ret' = "true"
          /\ m_tempDirToCleanup' = CallArgs(trace')[3]
          /\ m_isCopying' = TRUE
          /\ m_copiedSize' = 0
          /\ m_totalSize' = 0
          /\ DirOf(CallArgs(trace')[2]) \in dirs'
          /\ Raised(trace', "dispatch") = 1
          /\ DOMAIN units' = DOMAIN units \cup {nextId}
          /\ nextId \notin DOMAIN units
          /\ \A u \in DOMAIN units : units'[u] = units[u]
          /\ units'[nextId].kind = "copy"
          /\ units'[nextId].a1 = CallArgs(trace')[1]
          /\ units'[nextId].a2 = CallArgs(trace')[2]
          /\ units'[nextId].stage = "running"
          /\ units'[nextId].queue = <<>>
          /\ units'[nextId].nprog = 0]_vars

\* a second copy is accepted, with a temp directory, after the first one
\* created the destination directory
C4_Witness ==
    /\ op = "startCopy"
    /\ ret = "true"
    /\ Newest = 2
    /\ units[Newest].kind = "copy"
    /\ units[Newest].queue = <<>>
    /\ m_tempDirToCleanup # ""
    /\ m_isCopying
    /\ m_copiedSize = 0

\* the terminal signals of a copy and of a delete
CopyTerminals == {"copySucceeded", "copyFailed"}
DeleteTerminals == {"deleteSucceeded", "deleteFailed"}

Last(tr) == tr[Len(tr)]

\* C5: onCopyFinished(success, message) clears m_isCopying and sets the
\* status to message first, then cleans up the recorded temp directory (if
\* one is recorded), and raises the terminal signal last: copySucceeded iff
\* success, else copyFailed(message); when that signal is raised m_isCopying
\* is false and the handle is empty.
C5_FinishOrder ==
    op = "onCopyFinished" =>
        LET success == CallArgs(trace)[1] = "true"
            message == CallArgs(trace)[2]
            cleanup == IndexOf(trace, "cleanupTempDirectory", 1)
        IN /\ m_status = message
           /\ trace[2].sig = "isCopyingChanged"
           /\ trace[2].busy = FALSE
           /\ trace[3].sig = "statusChanged"
           /\ (trace[1].handle # "") <=> (cleanup # 0)
           /\ cleanup # 0 => cleanup > 3 /\ trace[cleanup].busy = FALSE
           /\ Len(Only(trace, CopyTerminals)) = 1
           /\ Last(trace).sig = (IF success THEN "copySucceeded" ELSE "copyFailed")
           /\ ~success => Last(trace).args = <<message>>
           /\ Last(trace).busy = FALSE
           /\ Last(trace).handle = ""

\* a failed copy that had a temp directory recorded
C5_Witness ==
    /\ op = "onCopyFinished"
    /\ trace[1].handle # ""
    /\ Last(trace).sig = "copyFailed"

\* C6: when the terminal result of a copy accepted with a non-empty temp
\* directory is consumed, cleanupTempDirectory is called exactly once, on
\* the path given to the startCopy call that dispatched that copy, and the
\* handle is empty afterwards whether or not the directory is gone; for a
\* copy accepted with an empty temp directory it is not called.
C6_CleanupOnOwnPath ==
    op = "onCopyFinished" =>
        LET given == units[sender].temp
            calls == Only(trace, {"cleanupTempDirectory"})
        IN /\ m_tempDirToCleanup = ""
           /\ IF given # "" THEN Len(calls) = 1 /\ calls[1].args = <<given>>
              ELSE Len(calls) = 0

\* the second copy finishes: the first one's temp directory is gone, its
\* own is still there because its removal failed
C6_Witness ==
    /\ op = "onCopyFinished"
    /\ sender = 2
    /\ units[sender].temp = "/tmp/stage2"
    /\ fs["/tmp/stage2"].exists
    /\ ~fs["/tmp/stage1"].exists
    /\ m_tempDirToCleanup = ""

\* C7: the terminal signal of a copy depends on the worker's success flag
\* alone: whatever removals fail inside cleanupTempDirectory, success = true
\* raises copySucceeded and never copyFailed (and success = false raises
\* copyFailed), and the signal is raised after cleanupTempDirectory returns.
C7_CleanupNeverDowngrades ==
    op = "onCopyFinished" =>
        LET success == CallArgs(trace)[1] = "true"
            returned == IndexOf(trace, "cleanupTempDirectory.return", 1)
        IN /\ success => Raised(trace, "copySucceeded") = 1 /\ Raised(trace, "copyFailed") = 0
           /\ ~success => Raised(trace, "copyFailed") = 1 /\ Raised(trace, "copySucceeded") = 0
           /\ Last(trace).sig \in CopyTerminals
           /\ returned # 0 => returned = Len(trace) - 1

\* whether tr holds a failed call of that name
FailedCall(tr, name) ==
    \E i \in 1..Len(tr) : tr[i].sig = name /\ tr[i].args[3] = "false"

\* a successful copy whose cleanup saw every kind of removal fail
C7_Witness ==
    /\ op = "onCopyFinished"
    /\ CallArgs(trace)[1] = "true"
    /\ FailedCall(trace, "QFile::remove")
    /\ FailedCall(trace, "subDir.removeRecursively")
    /\ FailedCall(trace, "dir.removeRecursively")
    /\ FailedCall(trace, "parentDir.rmdir")
    /\ Raised(trace, "copySucceeded") = 1

\* C8: progressPercent() returns 0 when m_totalSize <= 0, and
\* floor(m_copiedSize * 100 / m_totalSize) when 0 <= m_copiedSize <=
\* m_totalSize and m_totalSize > 0.
C8_PercentIsFloor ==
    op = "progressPercent" =>
        /\ m_totalSize <= 0 => percent = 0
        /\ (m_totalSize > 0 /\ 0 <= m_copiedSize /\ m_copiedSize <= m_totalSize) =>
              percent = (m_copiedSize * 100) \div m_totalSize

\* what does hold: the same, for sizes whose product with 100 fits in qint64
C8_FloorWithoutOverflow ==
    op = "progressPercent" =>
        /\ m_totalSize <= 0 => percent = 0
        /\ (m_totalSize > 0 /\ 0 <= m_copiedSize /\ m_copiedSize <= m_totalSize
              /\ InInt64(m_copiedSize * 100)) =>
              percent = (m_copiedSize * 100) \div m_totalSize

\* C9: the percent derived from the sizes stored by onCopyProgress is in
\* 0..100 in every reachable state.
C9_PercentInRange ==
    \A p \in progressPercentOutcomes(m_copiedSize, m_totalSize) : p \in 0..100

\* how a step leaves the state of the copy in flight alone
CopyStateUnchanged ==
    /\ m_isCopying' = m_isCopying
    /\ m_copiedSize' = m_copiedSize
    /\ m_totalSize' = m_totalSize
    /\ m_tempDirToCleanup' = m_tempDirToCleanup

\* C10: startDelete dispatches exactly one delete unit and returns true,
\* whether or not m_isCopying is set; neither it nor onDeleteFinished
\* changes m_isCopying, m_copiedSize, m_totalSize or m_tempDirToCleanup;
\* onDeleteFinished(false, message) raises deleteFailed(message) and
\* onDeleteFinished(true, message) raises deleteSucceeded.
C10_DeleteLeavesCopyAlone ==
    [][/\ op' = "startDelete" =>
             /\ ret' = "true"
             /\ Raised(trace', "dispatch") = 1
             /\ nextId \notin DOMAIN units
             /\ DOMAIN units' = DOMAIN units \cup {nextId}
             /\ \A u \in DOMAIN units : units'[u] = units[u]
             /\ units'[nextId].kind = "delete"
             /\ units'[nextId].a1 = CallArgs(trace')[1]
             /\ CopyStateUnchanged
       /\ op' = "onDeleteFinished" =>
             /\ CopyStateUnchanged
             /\ Len(Only(trace', DeleteTerminals)) = 1
             /\ Last(trace').sig = (IF CallArgs(trace')[1] = "true" THEN "deleteSucceeded"
                                    ELSE "deleteFailed")
             /\ CallArgs(trace')[1] = "false" => Last(trace').args = <<CallArgs(trace')[2]>>]_vars

\* a delete started after a copy was accepted fails while that copy is
\* still in flight
C10_Witness ==
    /\ op = "onDeleteFinished"
    /\ sender = 2
    /\ 1 \in InFlight("copy")
    /\ m_isCopying
    /\ m_tempDirToCleanup # ""
    /\ Last(trace).sig = "deleteFailed"

\* the start methods of the extraction family, and the unit each dispatches
ExtractionStarts == {"startImageInfoExtraction", "startImageInfoAndValidation"}
ExtractionKind(name) ==
    IF name = "startImageInfoExtraction" THEN "extract" ELSE "extractAndValidate"

\* what a step may change besides the status when it dispatches nothing
OnlyStatusChanged ==
    /\ CopyStateUnchanged
    /\ m_deletingFilePath' = m_deletingFilePath
    /\ units' = units
    /\ nextId' = nextId
    /\ dirs' = dirs
    /\ fs' = fs

\* C11: startImageInfoExtraction and startImageInfoAndValidation called
\* while m_isCopying is set return false, dispatch no unit, raise no
\* validationProgress and change only the status; called while it is clear
\* they dispatch exactly one unit of their kind and return true, and
\* startImageInfoAndValidation raises validationProgress(_, 0) once, before
\* the dispatch, so before anything of that unit is consumed.
C11_ExtractionGated ==
    [][op' \in ExtractionStarts =>
          IF m_isCopying
          THEN /\ ret' = "false"
               /\ Raised(trace', "dispatch") = 0
               /\ Raised(trace', "validationProgress") = 0
               /\ m_status' = "Already processing..."
               /\ OnlyStatusChanged
          ELSE /\ ret' = "true"
               /\ Raised(trace', "dispatch") = 1
               /\ nextId \notin DOMAIN units
               /\ DOMAIN units' = DOMAIN units \cup {nextId}
               /\ \A u \in DOMAIN units : units'[u] = units[u]
               /\ units'[nextId].kind = ExtractionKind(op')
               /\ units'[nextId].a1 = CallArgs(trace')[1]
               /\ units'[nextId].stage = "running"
               /\ units'[nextId].queue = <<>>
               /\ CopyStateUnchanged
               /\ IF op' = "startImageInfoAndValidation"
                  THEN /\ Raised(trace', "validationProgress") = 1
                       /\ trace'[IndexOf(trace', "validationProgress", 1)].args[2] = "0"
                       /\ IndexOf(trace', "validationProgress", 1)
                             < IndexOf(trace', "dispatch", 1)
                  ELSE Raised(trace', "validationProgress") = 0]_vars

\* startImageInfoAndValidation is rejected while a copy with a temp
\* directory is under way
C11_Witness ==
    /\ op = "startImageInfoAndValidation"
    /\ ret = "false"
    /\ m_isCopying
    /\ m_copiedSize > 0
    /\ m_tempDirToCleanup # ""
    /\ m_status = "Already processing..."

\* units of the extraction family whose terminal result is not consumed yet
ExtractionInFlight == InFlight("extract") \cup InFlight("extractAndValidate")

\* C12: no copy unit is in flight at the same time as an extract or
\* extractAndValidate unit, and m_isCopying is true whenever an extract or
\* extractAndValidate unit is in flight.
C12_CopyExtractionExclusive ==
    /\ InFlight("copy") = {} \/ ExtractionInFlight = {}
    /\ ExtractionInFlight # {} => m_isCopying

\* the first half alone: a copy and an extraction are never in flight together
C12_NeverTogether ==
    InFlight("copy") = {} \/ ExtractionInFlight = {}

\* what does hold: no unit of the extraction family is dispatched while a
\* copy is in flight
C12_NoExtractionOntoCopy ==
    (op \in ExtractionStarts /\ ret = "true") => InFlight("copy") = {}

ValidationTerminals == {"validationSucceeded", "validationFailed"}

\* C13: startImageValidation dispatches exactly one validate unit and
\* returns true whether or not m_isCopying is set, raising
\* validationProgress(_, 0) once, before the dispatch, so before any event
\* of that unit is delivered; onValidationFinished(success, message,
\* imageName, tarFilePath) sets the status to message and raises
\* validationSucceeded(imageName, tarFilePath) iff success, else
\* validationFailed(message); neither changes m_isCopying.
C13_ValidationUngated ==
    /\ op = "startImageValidation" =>
          /\ ret = "true"
          /\ Raised(trace, "dispatch") = 1
          /\ Newest \in Live
          /\ units[Newest].kind = "validate"
          /\ units[Newest].a1 = CallArgs(trace)[1]
          /\ units[Newest].stage = "running"
          /\ units[Newest].queue = <<>>
          /\ Raised(trace, "validationProgress") = 1
          /\ trace[IndexOf(trace, "validationProgress", 1)].args[2] = "0"
          /\ IndexOf(trace, "validationProgress", 1) < IndexOf(trace, "dispatch", 1)
          /\ m_isCopying = trace[1].busy
    /\ op = "onValidationFinished" =>
          LET success == CallArgs(trace)[1] = "true"
              message == CallArgs(trace)[2]
              imageName == CallArgs(trace)[3]
              tarFilePath == CallArgs(trace)[4]
          IN /\ m_status = message
             /\ Len(Only(trace, ValidationTerminals)) = 1
             /\ Last(trace).sig = (IF success THEN "validationSucceeded" ELSE "validationFailed")
             /\ Last(trace).args = (IF success THEN <<imageName, tarFilePath>> ELSE <<message>>)
             /\ m_isCopying = trace[1].busy

\* a validation started while a copy was in flight fails while that copy
\* is still in flight
C13_Witness ==
    /\ op = "onValidationFinished"
    /\ sender = 2
    /\ 1 \in InFlight("copy")
    /\ m_isCopying
    /\ Last(trace).sig = "validationFailed"

\* the slots that take a terminal result, and the terminal signals of the
\* manager by kind of unit
TerminalSlots ==
    {"onCopyFinished", "onDeleteFinished", "onValidationFinished",
     "onImageInfoExtracted", "onImageInfoAndValidationCompleted"}

TerminalsOf(kind) ==
    CASE kind = "copy" -> CopyTerminals
      [] kind = "delete" -> DeleteTerminals
      [] kind = "validate" -> ValidationTerminals
      [] kind = "extract" -> {"imageInfoExtracted"}
      [] kind = "extractAndValidate" -> {"imageInfoAndValidationCompleted"}

AllTerminals ==
    CopyTerminals \cup DeleteTerminals \cup ValidationTerminals
        \cup {"imageInfoExtracted", "imageInfoAndValidationCompleted"}

\* the last step took the terminal result of unit u
Consumed(u) ==
    /\ op \in TerminalSlots
    /\ sender = u

\* C14: every dispatched unit (copy, delete, validate, extract,
\* extractAndValidate) eventually has its terminal result consumed by the
\* manager, given that the event loop runs the queued calls and the worker
\* emits its terminal signal; the slot that consumes it raises exactly one
\* terminal signal, of the unit's own kind, and no unit's terminal result is
\* consumed twice; a request rejected because m_isCopying is set raises no
\* terminal signal.
C14_TerminalConsumed ==
    /\ \A u \in Ids : (u \in Live /\ units[u].stage = "running") ~> Consumed(u)
    /\ [](op \in TerminalSlots =>
             /\ units[sender].stage = "consumed"
             /\ Len(Only(trace, TerminalsOf(units[sender].kind))) = 1
             /\ Len(Only(trace, AllTerminals)) = 1)
    /\ [][\A u \in Live : units[u].stage \in {"consumed", "quit"} =>
             ~(op' \in TerminalSlots /\ sender' = u)]_vars
    /\ []((ret = "false" /\ trace[1].busy) => Len(Only(trace, AllTerminals)) = 0)

\* an extraction's terminal result is consumed while another unit's waits
\* in the queue
C14_Witness ==
    /\ op = "onImageInfoExtracted"
    /\ sender = 1
    /\ 2 \in Live
    /\ units[2].stage = "returned"
    /\ Raised(trace, "imageInfoExtracted") = 1

\* C15: when a delete ends with success = true, deleteSucceeded carries the
\* path given to the startDelete call that dispatched that delete, whatever
\* other startDelete calls were made before its terminal result is consumed.
C15_DeleteSucceededOwnPath ==
    (op = "onDeleteFinished" /\ CallArgs(trace)[1] = "true") =>
        /\ Last(trace).sig = "deleteSucceeded"
        /\ Last(trace).args = <<units[sender].a1>>

\* what does hold: deleteSucceeded carries the path of the latest startDelete
C15_CarriesLatestPath ==
    (op = "onDeleteFinished" /\ CallArgs(trace)[1] = "true") =>
        /\ Last(trace).sig = "deleteSucceeded"
        /\ Last(trace).args = <<m_deletingFilePath>>

\* units whose terminal result the manager has consumed
Done(u) == u \in Live /\ units[u].stage \in {"consumed", "quit"}

\* units that forward validationProgress
ValidationInFlight == InFlight("validate") \cup InFlight("extractAndValidate")

\* C16: the manager takes the events of one unit in the order its worker
\* emitted them and the terminal result last: once a unit's terminal result
\* is consumed nothing of that unit is queued or run any more; onCopyProgress
\* runs only for the copy in flight (so only while m_isCopying is true), and
\* the sizes it applies within one copy never go back; validationProgress
\* is forwarded only for a unit whose terminal signal is still to come, and
\* what is forwarded is the oldest event queued for that unit.
C16_EventsInOrder ==
    /\ [](\A u \in Live : Done(u) => units[u].queue = <<>>)
    /\ [][\A u \in Live : Done(u) => sender' # u]_vars
    /\ [](op = "onCopyProgress" =>
             /\ trace[1].busy
             /\ m_isCopying
             /\ sender \in InFlight("copy"))
    /\ [][op' = "onCopyProgress" =>
             /\ m_copiedSize' >= m_copiedSize
             /\ m_copiedSize' = units[sender'].queue[1].copied
             /\ units'[sender'].queue = Tail(units[sender'].queue)]_vars
    /\ []((op = "validationProgress" /\ sender # 0) => sender \in ValidationInFlight)
    /\ [][(op' = "validationProgress" /\ sender' # 0) =>
             /\ trace'[1].args = units[sender'].queue[1].payload
             /\ units'[sender'].queue = Tail(units[sender'].queue)]_vars

\* the first of two progress events of a copy is applied while the second
\* one and the terminal result wait in the queue
C16_Witness ==
    /\ op = "onCopyProgress"
    /\ m_copiedSize = 1
    /\ Len(units[sender].queue) = 2
    /\ units[sender].queue[1].type = "progress"
    /\ units[sender].queue[1].copied = 2
    /\ units[sender].queue[2].type = "finished"

\* the removals cleanupTempDirectory attempts
RemovalCalls ==
    {"QFile::remove", "subDir.removeRecursively", "dir.removeRecursively", "parentDir.rmdir"}

\* C17: cleanupTempDirectory(dir) on an existing directory attempts
\* QFile::remove once on every file of dir, then removeRecursively once on
\* every subdirectory of dir, whatever failed before, then
\* dir.removeRecursively once; parentDir.rmdir is attempted once if that
\* failed and not at all if it succeeded; when no removal fails, dir and
\* what it held are gone; no other directory is touched.  On a directory
\* that does not exist it attempts nothing.
C17_CleanupSteps ==
    [][(op' = "onCopyFinished" /\ m_tempDirToCleanup # "") =>
          LET dir == m_tempDirToCleanup
              d == fs[dir]
              log == Only(trace', RemovalCalls)
              nf == Cardinality(d.files)
              ns == Cardinality(d.subs)
              rec == nf + ns + 1
          IN IF ~d.exists THEN log = <<>> /\ fs' = fs /\ dirs' = dirs
             ELSE /\ Len(log) >= rec
                  /\ \A i \in 1..nf : log[i].sig = "QFile::remove"
                  /\ {log[i].args[2] : i \in 1..nf} = d.files
                  /\ \A i \in (nf + 1)..(nf + ns) : log[i].sig = "subDir.removeRecursively"
                  /\ {log[i].args[2] : i \in (nf + 1)..(nf + ns)} = d.subs
                  /\ log[rec].sig = "dir.removeRecursively"
                  /\ Len(log) = (IF log[rec].args[3] = "false" THEN rec + 1 ELSE rec)
                  /\ Len(log) > rec => log[rec + 1].sig = "parentDir.rmdir"
                  /\ \A i \in 1..Len(log) : log[i].args[1] = dir
                  /\ (\A i \in 1..Len(log) : log[i].args[3] = "true") =>
                        fs'[dir] = [exists |-> FALSE, files |-> {}, subs |-> {}]
                  /\ \A e \in TempDirs \ {dir} : fs'[e] = fs[e]
                  /\ dirs' = dirs]_vars

\* a cleanup of two files and two subdirectories in which one file could
\* not be removed, the recursive removal failed and the fallback was tried
C17_Witness ==
    /\ op = "onCopyFinished"
    /\ Raised(trace, "QFile::remove") = 2
    /\ Raised(trace, "subDir.removeRecursively") = 2
    /\ FailedCall(trace, "QFile::remove")
    /\ ~FailedCall(trace, "subDir.removeRecursively")
    /\ FailedCall(trace, "dir.removeRecursively")
    /\ Raised(trace, "parentDir.rmdir") = 1
    /\ fs["/tmp/stage1"].exists

\* C18: the handle m_tempDirToCleanup is non-empty only while a copy is in
\* flight: in every state between two steps of the control context a
\* non-empty handle implies m_isCopying, and the handle is empty once
\* onCopyFinished has run and after a startCopy that found m_isCopying
\* false and was rejected.
C18_HandleOnlyWhileCopying ==
    /\ m_tempDirToCleanup # "" => m_isCopying /\ InFlight("copy") # {}
    /\ op = "onCopyFinished" => m_tempDirToCleanup = ""
    /\ (op = "startCopy" /\ ret = "false" /\ ~trace[1].busy) => m_tempDirToCleanup = ""

\* a startCopy naming a temp directory is rejected for its destination
\* directory, after an earlier copy with a temp directory has finished
C18_Witness ==
    /\ op = "startCopy"
    /\ ret = "false"
    /\ ~trace[1].busy
    /\ CallArgs(trace)[3] = "/tmp/stage2"
    /\ ~fs["/tmp/stage1"].exists
    /\ m_tempDirToCleanup = ""
    /\ nextId = 2

\* position of the first cleanupTempDirectory(dir) call in tr, 0 if none
RECURSIVE CleanupOf(_, _, _)
CleanupOf(tr, dir, i) ==
    IF i > Len(tr) THEN 0
    ELSE IF tr[i].sig = "cleanupTempDirectory" /\ tr[i].args = <<dir>> THEN i
    ELSE CleanupOf(tr, dir, i + 1)

\* position of the first copySucceeded or copyFailed in tr, 0 if none
RECURSIVE CopyTerminalAt(_, _)
CopyTerminalAt(tr, i) ==
    IF i > Len(tr) THEN 0
    ELSE IF tr[i].sig \in CopyTerminals THEN i
    ELSE CopyTerminalAt(tr, i + 1)

\* the temp directory of the startCopy call that a copySucceeded or
\* copyFailed raised in the last step answers
AnsweredTempDir ==
    IF op = "startCopy" THEN CallArgs(trace)[3] ELSE units[sender].temp

\* C19: for every startCopy call made with a non-empty temp directory for
\* which copySucceeded or copyFailed is raised (copyFailed for a destination
\* directory that could not be created included), cleanupTempDirectory has
\* been called on that temp directory by the time the signal is raised.
C19_NoTempDirLeak ==
    (op \in {"startCopy", "onCopyFinished"} /\ CopyTerminalAt(trace, 1) # 0
        /\ AnsweredTempDir # "") =>
        /\ CleanupOf(trace, AnsweredTempDir, 1) # 0
        /\ CleanupOf(trace, AnsweredTempDir, 1) < CopyTerminalAt(trace, 1)

\* what does hold: the same for the copies that were dispatched
C19_DispatchedCopiesCleaned ==
    (op = "onCopyFinished" /\ units[sender].temp # "") =>
        /\ CleanupOf(trace, units[sender].temp, 1) # 0
        /\ CleanupOf(trace, units[sender].temp, 1) < CopyTerminalAt(trace, 1)

\* units of any kind whose terminal result is not consumed yet
AnyInFlight == {u \in Live : units[u].stage \in {"running", "returned"}}

\* C20: a request that is accepted creates exactly one QThread with one
\* worker, under an id no other request gets, bound to that request for as
\* long as it lives, and a request that is not accepted creates none; a
\* thread is asked to quit only after the manager has consumed the terminal
\* result of its operation, and is deleted only after it quit; given a fair
\* event loop every thread and its worker are eventually deleted, so that
\* once no operation is in flight the threads that remain go away (unless a
\* new request arrives).
C20_ThreadLifecycle ==
    /\ [](\A u \in Live : u < nextId)
    /\ [][IF ret' = "true"
          THEN /\ nextId \notin DOMAIN units
               /\ DOMAIN units' = DOMAIN units \cup {nextId}
               /\ nextId' = nextId + 1
               /\ units'[nextId].stage = "running"
               /\ units'[nextId].queue = <<>>
               /\ Raised(trace', "dispatch") = 1
               /\ \A u \in DOMAIN units : units'[u] = units[u]
          ELSE /\ DOMAIN units' \subseteq DOMAIN units
               /\ nextId' = nextId]_vars
    /\ [][\A u \in Live \cap DOMAIN units' :
             /\ units'[u].kind = units[u].kind
             /\ units'[u].a1 = units[u].a1
             /\ units'[u].a2 = units[u].a2
             /\ (units'[u].stage = "quit" /\ units[u].stage # "quit") =>
                   units[u].stage = "consumed" /\ units[u].queue = <<>>]_vars
    /\ [][\A u \in Live \ DOMAIN units' : units[u].stage = "quit"]_vars
    /\ \A u \in Ids : (u \in Live) ~> (u \notin Live)
    /\ (AnyInFlight = {}) ~> (Live = {} \/ AnyInFlight # {})

\* the threads of two requests have both been deleted
C20_Witness ==
    /\ op = "QThread::finished"
    /\ Live = {}
    /\ nextId = 3

====
